---- MODULE Spec2Model ----
(***************************************************************************)
(* Model of the two command-line utilities of prelude-si:                  *)
(*   deno/deno_test.py  -- the Deno test runner adapter                    *)
(*   git/git_info.py    -- the Git version metadata generator              *)
(*                                                                         *)
(* A Python str is a sequence of tokens (the empty str is << >>), so that  *)
(* concatenation is \o and truthiness of a str is "not the empty           *)
(* sequence".  A path is the sequence of its components, the root being    *)
(* the component "/".                                                      *)
(***************************************************************************)
EXTENDS Integers, Sequences, FiniteSets, TLC

VARIABLES
    \* ---- deno_test.py ----
    argv,          \* the command line handed to the adapter
    fs,            \* absolute paths that exist on disk
    d_pc,          \* position of deno_test.main
    idx,           \* loop position in `for input_path in args.input`
    input_paths,   \* main's input_paths list
    cmd,           \* the command run_tests built
    invocations,   \* number of subprocess.run calls made
    tool,          \* what the external process did (exit code, what it wrote)
    result,        \* what subprocess.run handed back to run_tests
    exc,           \* message of the exception travelling to main's handler
    out,           \* lines the adapter itself printed on stdout
    err,           \* lines the adapter itself printed on stderr
    tty_out,       \* what the child wrote straight to the inherited stdout
    tty_err,       \* what the child wrote straight to the inherited stderr
    ret,           \* main's return value (NoReturn while it has not returned)
    exit_code,     \* exit status of the process (NoReturn while running)
    \* ---- git_info.py ----
    g_pc,          \* position of git_info.main
    output,        \* args.output: "-" or a file name
    local_off,     \* UTC offset of the machine's local timezone, in minutes
    data,          \* main's `data` dict
    show_resp,     \* the object json.loads made of the show query's output
    merged,        \* `data` as it was handed to finalize
    clock,         \* the wall clock as finalize read it (NoClock if it did not)
    log,           \* the steps main has completed or failed, in order
    stdout_json,   \* the records dumped on stdout, in order
    file_json,     \* the records dumped into the output file, in order
    g_exit         \* exit status of the process (NoReturn while running)

dvars == <<argv, fs, d_pc, idx, input_paths, cmd, invocations, tool, result,
           exc, out, err, tty_out, tty_err, ret, exit_code>>

gvars == <<g_pc, output, local_off, data, show_resp, merged, clock, log,
           stdout_json, file_json, g_exit>>

vars == <<dvars, gvars>>

\* ------------------------------------------------------------------------
\* Bounds of the model
\* ------------------------------------------------------------------------
MaxInputs == 2
MaxIgnore == 2
\* resolution of the wall clock: fractions of a second it can show
TicksPerSec == 2

NoReturn == -1

SeqsUpTo(S, n) == UNION { [1..k -> S] : k \in 0..n }

\* ------------------------------------------------------------------------
\* deno_test.py
\* ------------------------------------------------------------------------
Cwd == <<"/", "w">>

InputPool == { <<"a.ts">>, <<"..", "b.ts">>, <<"/", "w", ".", "a.ts">> }
FilterPool == { <<>>, <<"foo">> }
IgnorePool == { <<"x">>, <<"y">> }
OutputPool == { <<>>, <<"ok">> }

\* os.path.normpath on a component sequence: "." is dropped, ".." removes the
\* component before it (and is dropped at the root).
RECURSIVE NormInto(_, _)
NormInto(acc, rest) ==
    IF rest = <<>> THEN acc
    ELSE LET c == Head(rest) IN
         IF c = "." THEN NormInto(acc, Tail(rest))
         ELSE IF c = ".." THEN
              IF Len(acc) > 1 THEN NormInto(SubSeq(acc, 1, Len(acc) - 1), Tail(rest))
              ELSE NormInto(acc, Tail(rest))
         ELSE NormInto(Append(acc, c), Tail(rest))

IsAbs(p) == p # <<>> /\ p[1] = "/"

\* os.path.abspath(p) = normpath(join(getcwd(), p))
Abspath(p) ==
    IF IsAbs(p) THEN NormInto(<<"/">>, Tail(p))
    ELSE NormInto(<<"/">>, Tail(Cwd) \o p)

Exists(p) == p \in fs

\* f"--ignore={ignore}" for each entry, in order
RECURSIVE IgnoreFlags(_)
IgnoreFlags(ignore_paths) ==
    IF ignore_paths = <<>> THEN <<>>
    ELSE <<(<<"--ignore=">> \o Head(ignore_paths))>> \o IgnoreFlags(Tail(ignore_paths))

\* `if filter_pattern:` -- None and the empty str are both falsy
FilterTruthy(filter_pattern) == filter_pattern.present /\ filter_pattern.value # <<>>

\* bug: --watch appended before --parallel
BuildCmd_WatchFirst(paths, filter_pattern, ignore_paths, parallel, watch) ==
    LET c0 == << <<"deno">>, <<"test">> >>
        c1 == IF FilterTruthy(filter_pattern)
              THEN c0 \o << <<"--filter">>, filter_pattern.value >> ELSE c0
        c2 == c1 \o IgnoreFlags(ignore_paths)
        c3 == IF watch THEN Append(c2, <<"--watch">>) ELSE c2
        c4 == IF parallel THEN Append(c3, <<"--parallel">>) ELSE c3
    IN  c4 \o paths

\* run_tests, lines 49-63: the command list
BuildCmd(paths, filter_pattern, ignore_paths, parallel, watch) ==
    LET c0 == << <<"deno">>, <<"test">> >>
        c1 == IF FilterTruthy(filter_pattern)
              THEN c0 \o << <<"--filter">>, filter_pattern.value >> ELSE c0
        c2 == c1 \o IgnoreFlags(ignore_paths)
        c3 == IF parallel THEN Append(c2, <<"--parallel">>) ELSE c2
        c4 == IF watch THEN Append(c3, <<"--watch">>) ELSE c3
    IN  c4 \o paths

\* ' '.join(cmd)
RECURSIVE JoinSpace(_)
JoinSpace(c) ==
    IF c = <<>> THEN <<>>
    ELSE IF Len(c) = 1 THEN c[1]
    ELSE c[1] \o <<" ">> \o JoinSpace(Tail(c))

\* subprocess.run(cmd, check=True, text=True): stdout/stderr are captured only
\* when capture_output (or stdout=PIPE) is passed; otherwise the attributes of
\* the result are None and the child writes to the inherited streams.
SubprocessRun(t, capture) ==
    [returncode |-> t.rc,
     has_stdout |-> capture, stdout |-> IF capture THEN t.stdout ELSE <<>>,
     has_stderr |-> capture, stderr |-> IF capture THEN t.stderr ELSE <<>>]

RunCaptures == FALSE

Truthy(has, s) == has /\ s # <<>>

NoTool == [spawned |-> FALSE, rc |-> 0, stdout |-> <<>>, stderr |-> <<>>]
NoResult == [returncode |-> 0, has_stdout |-> FALSE, stdout |-> <<>>,
             has_stderr |-> FALSE, stderr |-> <<>>]

Argvs ==
    [mode : {"plain", "help", "unknown"},
     input : SeqsUpTo(InputPool, MaxInputs),
     filter : {[present |-> FALSE, value |-> <<>>]}
              \cup {[present |-> TRUE, value |-> v] : v \in FilterPool},
     ignore : SeqsUpTo(IgnorePool, MaxIgnore),
     parallel : BOOLEAN,
     watch : BOOLEAN]

DenoInit ==
    /\ argv \in Argvs
    /\ fs \in SUBSET { Abspath(p) : p \in InputPool }
    /\ d_pc = "start"
    /\ idx = 1
    /\ input_paths = <<>>
    /\ cmd = <<>>
    /\ invocations = 0
    /\ tool = NoTool
    /\ result = NoResult
    /\ exc = <<>>
    /\ out = <<>>
    /\ err = <<>>
    /\ tty_out = <<>>
    /\ tty_err = <<>>
    /\ ret = NoReturn
    /\ exit_code = NoReturn

\* bug: argparse failures raised as an ordinary exception (exit_on_error off)
ParseArgs_Caught ==
    /\ d_pc = "start"
    /\ IF argv.mode = "help" THEN
           /\ out' = Append(out, <<"usage">>)
           /\ exit_code' = 0
           /\ d_pc' = "done"
           /\ UNCHANGED exc
       ELSE IF argv.mode = "unknown" \/ argv.input = <<>> THEN
           /\ exc' = <<"unrecognized or missing arguments">>
           /\ d_pc' = "except"
           /\ UNCHANGED <<out, exit_code>>
       ELSE
           /\ d_pc' = "validate"
           /\ UNCHANGED <<out, exc, exit_code>>
    /\ UNCHANGED gvars
    /\ UNCHANGED <<argv, fs, idx, input_paths, cmd, invocations, tool, result,
                   err, tty_out, tty_err, ret>>

\* parse_args (lines 13-38), called at line 82.  argparse prints the help and
\* raises SystemExit(0) on -h; on an unknown flag or a missing required --input
\* parser.error prints the usage to stderr and raises SystemExit(2).  SystemExit
\* derives from BaseException, so `except Exception` (line 99) is not entered.
ParseArgs ==
    /\ d_pc = "start"
    /\ IF argv.mode = "help" THEN
           /\ out' = Append(out, <<"usage">>)
           /\ exit_code' = 0
           /\ d_pc' = "done"
           /\ UNCHANGED err
       ELSE IF argv.mode = "unknown" \/ argv.input = <<>> THEN
           /\ err' = Append(err, <<"usage">>)
           /\ exit_code' = 2
           /\ d_pc' = "done"
           /\ UNCHANGED out
       ELSE
           /\ d_pc' = "validate"
           /\ UNCHANGED <<out, err, exit_code>>
    /\ UNCHANGED gvars
    /\ UNCHANGED <<argv, fs, idx, input_paths, cmd, invocations, tool, result,
                   exc, tty_out, tty_err, ret>>

\* bug: the missing path is reported but the loop goes on (no `return 1`)
CheckInputPath_NoReturn ==
    /\ d_pc = "validate"
    /\ idx <= Len(argv.input)
    /\ LET abs_path == Abspath(argv.input[idx]) IN
       /\ err' = IF ~Exists(abs_path)
                 THEN Append(err, <<"Error: Input path not found: ">> \o abs_path)
                 ELSE err
       /\ input_paths' = Append(input_paths, abs_path)
       /\ idx' = idx + 1
    /\ UNCHANGED gvars
    /\ UNCHANGED <<argv, fs, d_pc, cmd, invocations, tool, result, exc, out,
                   tty_out, tty_err, ret, exit_code>>

\* main, lines 85-91: one iteration of the validation loop
CheckInputPath ==
    /\ d_pc = "validate"
    /\ idx <= Len(argv.input)
    /\ LET abs_path == Abspath(argv.input[idx]) IN
       IF ~Exists(abs_path) THEN
           /\ err' = Append(err, <<"Error: Input path not found: ">> \o abs_path)
           /\ ret' = 1
           /\ exit_code' = 1
           /\ d_pc' = "done"
           /\ UNCHANGED <<idx, input_paths>>
       ELSE
           /\ input_paths' = Append(input_paths, abs_path)
           /\ idx' = idx + 1
           /\ UNCHANGED <<err, ret, exit_code, d_pc>>
    /\ UNCHANGED gvars
    /\ UNCHANGED <<argv, fs, cmd, invocations, tool, result, exc, out,
                   tty_out, tty_err>>

\* run_tests (lines 41-77), called at line 93 once the loop is over
RunTests ==
    /\ d_pc = "validate"
    /\ idx > Len(argv.input)
    /\ LET c == BuildCmd(input_paths, argv.filter, argv.ignore,
                         argv.parallel, argv.watch) IN
       /\ cmd' = c
       /\ invocations' = invocations + 1
       /\ \E spawned \in BOOLEAN, rc \in {0, 1},
             so \in OutputPool, se \in OutputPool :
          IF ~spawned THEN
              \* the executable cannot be started: OSError out of subprocess.run
              /\ tool' = NoTool
              /\ result' = NoResult
              /\ exc' = <<"No such file or directory: deno">>
              /\ d_pc' = "except"
              /\ UNCHANGED <<out, err, tty_out, tty_err>>
          ELSE
              LET t == [spawned |-> TRUE, rc |-> rc, stdout |-> so, stderr |-> se]
                  r == SubprocessRun(t, RunCaptures)
              IN
              /\ tool' = t
              /\ result' = r
              /\ tty_out' = IF r.has_stdout THEN tty_out ELSE tty_out \o so
              /\ tty_err' = IF r.has_stderr THEN tty_err ELSE tty_err \o se
              /\ IF r.returncode = 0 THEN
                     /\ out' = IF Truthy(r.has_stdout, r.stdout)
                               THEN Append(out, r.stdout) ELSE out
                     /\ d_pc' = "returned"
                     /\ UNCHANGED <<err, exc>>
                 ELSE
                     /\ err' = err
                          \o << <<"Error running deno test:">>,
                                <<"Command: ">> \o JoinSpace(c),
                                <<"Exit code: ", ToString(r.returncode)>> >>
                          \o (IF Truthy(r.has_stdout, r.stdout)
                              THEN << <<"stdout: ">> \o r.stdout >> ELSE <<>>)
                          \o (IF Truthy(r.has_stderr, r.stderr)
                              THEN << <<"stderr: ">> \o r.stderr >> ELSE <<>>)
                     /\ exc' = <<"Command returned non-zero exit status">>
                     /\ d_pc' = "except"
                     /\ UNCHANGED out
    /\ UNCHANGED gvars
    /\ UNCHANGED <<argv, fs, idx, input_paths, ret, exit_code>>

\* main, lines 96-97
MainSuccess ==
    /\ d_pc = "returned"
    /\ out' = Append(out, <<"Tests completed successfully.">>)
    /\ ret' = 0
    /\ exit_code' = 0
    /\ d_pc' = "done"
    /\ UNCHANGED gvars
    /\ UNCHANGED <<argv, fs, idx, input_paths, cmd, invocations, tool, result,
                   exc, err, tty_out, tty_err>>

\* bug: the handler reports the error but returns success
MainExcept_ReturnsZero ==
    /\ d_pc = "except"
    /\ err' = Append(err, <<"Error: ">> \o exc)
    /\ ret' = 0
    /\ exit_code' = 0
    /\ d_pc' = "done"
    /\ UNCHANGED gvars
    /\ UNCHANGED <<argv, fs, idx, input_paths, cmd, invocations, tool, result,
                   exc, out, tty_out, tty_err>>

\* main, lines 99-101
MainExcept ==
    /\ d_pc = "except"
    /\ err' = Append(err, <<"Error: ">> \o exc)
    /\ ret' = 1
    /\ exit_code' = 1
    /\ d_pc' = "done"
    /\ UNCHANGED gvars
    /\ UNCHANGED <<argv, fs, idx, input_paths, cmd, invocations, tool, result,
                   exc, out, tty_out, tty_err>>

DenoNext ==
    \/ ParseArgs
    \/ CheckInputPath
    \/ RunTests
    \/ MainSuccess
    \/ MainExcept

\* ------------------------------------------------------------------------
\* git_info.py
\* ------------------------------------------------------------------------
ABBREVIATED_COMMIT_HASH == "abbreviated_commit_hash"
CAL_VER == "cal_ver"
ARTIFACT_VER == "artifact_ver"
COMMITER_DATE_STRICT == "committer_date_strict_iso8601"
COMMITER_DATE_TIMESTAMP == "committer_date_timestamp"
COMMIT_HASH == "commit_hash"
IS_DIRTY == "is_dirty"

NoClock == [secs |-> 0, sub |-> 0]

\* dict.update
Update(d, e) ==
    [k \in DOMAIN d \cup DOMAIN e |-> IF k \in DOMAIN e THEN e[k] ELSE d[k]]

EmptyDict == [k \in {} |-> FALSE]

\* ---- the calendar arithmetic of Python's datetime (proleptic Gregorian) ----
DaysFromCivil(y, m, d) ==
    LET yy == IF m <= 2 THEN y - 1 ELSE y
        era == yy \div 400
        yoe == yy - era * 400
        mp == IF m > 2 THEN m - 3 ELSE m + 9
        doy == (153 * mp + 2) \div 5 + d - 1
        doe == yoe * 365 + yoe \div 4 - yoe \div 100 + doy
    IN  era * 146097 + doe - 719468

CivilFromDays(z) ==
    LET zz == z + 719468
        era == zz \div 146097
        doe == zz - era * 146097
        yoe == (doe - doe \div 1460 + doe \div 36524 - doe \div 146096) \div 365
        doy == doe - (365 * yoe + yoe \div 4 - yoe \div 100)
        mp == (5 * doy + 2) \div 153
        d == doy - (153 * mp + 2) \div 5 + 1
        m == IF mp < 10 THEN mp + 3 ELSE mp - 9
        y == yoe + era * 400 + (IF m <= 2 THEN 1 ELSE 0)
    IN  [year |-> y, month |-> m, day |-> d]

\* ---- decimal text ----
DigitChar == <<"0", "1", "2", "3", "4", "5", "6", "7", "8", "9">>
IsDigit(c) == \E i \in 1..10 : DigitChar[i] = c
DigitVal(c) == (CHOOSE i \in 1..10 : DigitChar[i] = c) - 1

\* n as `width` zero-padded decimal digits (%Y, %m, %d, %H, %M, %S)
RECURSIVE Digits(_, _)
Digits(n, width) ==
    IF width = 0 THEN <<>>
    ELSE Append(Digits(n \div 10, width - 1), DigitChar[(n % 10) + 1])

\* int(s[from..to])
RECURSIVE Num(_, _, _)
Num(s, from, to) ==
    IF to < from THEN 0 ELSE Num(s, from, to - 1) * 10 + DigitVal(s[to])

AllDigits(s, from, to) == \A i \in from..to : IsDigit(s[i])

\* git's %cI: YYYY-MM-DDTHH:MM:SS+HH:MM, the committer's local fields and offset
GitStrictIso(c) ==
    Digits(c.year, 4) \o <<"-">> \o Digits(c.month, 2) \o <<"-">> \o Digits(c.day, 2)
    \o <<"T">> \o Digits(c.hour, 2) \o <<":">> \o Digits(c.minute, 2)
    \o <<":">> \o Digits(c.second, 2)
    \o (IF c.off < 0 THEN <<"-">> ELSE <<"+">>)
    \o Digits((IF c.off < 0 THEN -c.off ELSE c.off) \div 60, 2) \o <<":">>
    \o Digits((IF c.off < 0 THEN -c.off ELSE c.off) % 60, 2)

\* the same without the offset: a naive ISO string
NaiveIso(c) == SubSeq(GitStrictIso(c), 1, 19)

\* ---- datetime ----
\* A datetime is its civil fields as seconds since 1970-01-01T00:00:00 in its
\* own frame (secs), the fraction of a second in ticks (sub), and its tzinfo:
\* aware with an offset in minutes, or naive.
HasDateTimeShape(s) ==
    /\ Len(s) >= 19
    /\ AllDigits(s, 1, 4) /\ s[5] = "-" /\ AllDigits(s, 6, 7) /\ s[8] = "-"
    /\ AllDigits(s, 9, 10) /\ s[11] = "T" /\ AllDigits(s, 12, 13) /\ s[14] = ":"
    /\ AllDigits(s, 15, 16) /\ s[17] = ":" /\ AllDigits(s, 18, 19)

HasOffsetShape(s) ==
    /\ Len(s) = 25
    /\ s[20] \in {"+", "-"}
    /\ AllDigits(s, 21, 22) /\ s[23] = ":" /\ AllDigits(s, 24, 25)

\* datetime.fromisoformat accepts the string (otherwise it raises ValueError)
IsIsoFormat(s) ==
    /\ HasDateTimeShape(s)
    /\ Len(s) = 19 \/ HasOffsetShape(s)

\* datetime.fromisoformat(s)
FromIsoFormat(s) ==
    LET days == DaysFromCivil(Num(s, 1, 4), Num(s, 6, 7), Num(s, 9, 10))
        sod == Num(s, 12, 13) * 3600 + Num(s, 15, 16) * 60 + Num(s, 18, 19)
        mag == IF Len(s) = 25 THEN Num(s, 21, 22) * 60 + Num(s, 24, 25) ELSE 0
    IN  [secs |-> days * 86400 + sod,
         sub |-> 0,
         aware |-> Len(s) = 25,
         off |-> IF Len(s) = 25 /\ s[20] = "-" THEN -mag ELSE mag]

\* datetime.utcnow(): the UTC fields of the current instant, as a NAIVE datetime
UtcNow(now) == [secs |-> now.secs, sub |-> now.sub, aware |-> FALSE, off |-> 0]

\* the UTC offset a datetime's fields are read with: its own when aware, the
\* machine's local timezone when naive
OffsetOf(dt, local) == IF dt.aware THEN dt.off ELSE local

\* bug: the offset is dropped instead of applied (replace(tzinfo=utc))
AsTimezoneUtc_ReplaceTz(dt, local) ==
    [secs |-> dt.secs, sub |-> dt.sub, aware |-> TRUE, off |-> 0]

\* dt.astimezone(timezone.utc)
AsTimezoneUtc(dt, local) ==
    [secs |-> dt.secs - OffsetOf(dt, local) * 60, sub |-> dt.sub,
     aware |-> TRUE, off |-> 0]

\* round(): to the nearest integer, a tie going to the even one
RoundHalfEven(secs, sub) ==
    IF 2 * sub < TicksPerSec THEN secs
    ELSE IF 2 * sub > TicksPerSec THEN secs + 1
    ELSE IF secs % 2 = 0 THEN secs ELSE secs + 1

\* round(dt.timestamp())
RoundedTimestamp(dt, local) ==
    RoundHalfEven(dt.secs - OffsetOf(dt, local) * 60, dt.sub)

Fields(dt) ==
    LET c == CivilFromDays(dt.secs \div 86400)
        sod == dt.secs % 86400
    IN  [year |-> c.year, month |-> c.month, day |-> c.day,
         hour |-> sod \div 3600, minute |-> (sod % 3600) \div 60,
         second |-> sod % 60]

\* strftime("%Y%m%d.%H%M%S.0") on the given fields
FormatCalVer(f) ==
    Digits(f.year, 4) \o Digits(f.month, 2) \o Digits(f.day, 2) \o <<".">>
    \o Digits(f.hour, 2) \o Digits(f.minute, 2) \o Digits(f.second, 2)
    \o <<".", "0">>

\* strftime("%Y%m%dT%H:%M:%SZ") on the given fields
FormatStrict(f) ==
    Digits(f.year, 4) \o Digits(f.month, 2) \o Digits(f.day, 2) \o <<"T">>
    \o Digits(f.hour, 2) \o <<":">> \o Digits(f.minute, 2) \o <<":">>
    \o Digits(f.second, 2) \o <<"Z">>

\* ---- finalize ----
\* data.get(key): None when the key is missing
Has(d, k) == k \in DOMAIN d

\* `if dt_str:` -- a missing key (None) and the empty str are both falsy
DateTruthy(d) == Has(d, COMMITER_DATE_STRICT) /\ d[COMMITER_DATE_STRICT] # <<>>

\* `is_dirty == True`
IsDirty(d) == Has(d, IS_DIRTY) /\ d[IS_DIRTY] = TRUE

\* bug: a dirty tree alone is enough to derive the fields
NeedsDerived_OrDirty(d) == DateTruthy(d) \/ IsDirty(d)

\* finalize, line 86
NeedsDerived(d) == DateTruthy(d)

\* finalize reads the wall clock (line 89)
ReadsClock(d) == NeedsDerived(d) /\ IsDirty(d)

\* finalize raises: fromisoformat's ValueError (line 92) or the KeyError of
\* data["abbreviated_commit_hash"] (line 101)
FinalizeRaises(d) ==
    /\ NeedsDerived(d)
    /\ \/ ~IsDirty(d) /\ ~IsIsoFormat(d[COMMITER_DATE_STRICT])
       \/ ~Has(d, ABBREVIATED_COMMIT_HASH)

\* finalize, lines 87-92
EffectiveMoment(d, now, local) ==
    IF IsDirty(d) THEN UtcNow(now)
    ELSE AsTimezoneUtc(FromIsoFormat(d[COMMITER_DATE_STRICT]), local)

\* finalize, lines 94-98
DerivedFields(dt_utc, local) ==
    [k \in {CAL_VER, COMMITER_DATE_STRICT, COMMITER_DATE_TIMESTAMP} |->
        IF k = CAL_VER THEN FormatCalVer(Fields(dt_utc))
        ELSE IF k = COMMITER_DATE_STRICT THEN FormatStrict(Fields(dt_utc))
        ELSE RoundedTimestamp(dt_utc, local)]

\* bug: the normalized date is used in place of the calendar version
ArtifactVer_FromDate(d) ==
    d[COMMITER_DATE_STRICT] \o <<"-sha">> \o d[ABBREVIATED_COMMIT_HASH]

\* finalize, lines 100-102
ArtifactVer(d) == d[CAL_VER] \o <<"-sha">> \o d[ABBREVIATED_COMMIT_HASH]

\* finalize (lines 82-102) where it does not raise
Finalized(d, now, local) ==
    IF NeedsDerived(d) THEN
        LET d1 == Update(d, DerivedFields(EffectiveMoment(d, now, local), local))
        IN  Update(d1, [k \in {ARTIFACT_VER} |-> ArtifactVer(d1)])
    ELSE d

\* ---- the environment: the machine and the repository ----
OutputArgs == {"-", "info.json"}
LocalOffsets == {-300, 0, 60}
StatusOutputs == { <<>>, <<" M README.md">> }

\* committer dates of HEAD: the committer's local fields and UTC offset
CommitDates ==
    { [year |-> 2024, month |-> 1, day |-> 15, hour |-> 10, minute |-> 30,
       second |-> 0, off |-> 0],
      [year |-> 2024, month |-> 1, day |-> 15, hour |-> 11, minute |-> 30,
       second |-> 0, off |-> 60],
      [year |-> 2024, month |-> 1, day |-> 15, hour |-> 5, minute |-> 30,
       second |-> 0, off |-> -300],
      [year |-> 2024, month |-> 3, day |-> 1, hour |-> 0, minute |-> 30,
       second |-> 59, off |-> 60],
      [year |-> 2023, month |-> 12, day |-> 31, hour |-> 20, minute |-> 0,
       second |-> 1, off |-> -330] }

DateTexts ==
    { GitStrictIso(c) : c \in CommitDates }
    \cup { NaiveIso(CHOOSE c \in CommitDates : c.off = 60 /\ c.month = 1) }
    \cup { <<>>, <<"n", "/", "a">> }

AbbrevPool == { <<"abc1234">> }
HashPool == { <<"abc1234", "def5678">> }

\* objects the show query's output can parse to: the keys of the format string
\* (lines 46-50), each present or not
ShowObjects ==
    { Update(Update(a, h), d) :
        a \in {EmptyDict} \cup {[k \in {ABBREVIATED_COMMIT_HASH} |-> v] : v \in AbbrevPool},
        h \in {EmptyDict} \cup {[k \in {COMMIT_HASH} |-> v] : v \in HashPool},
        d \in {EmptyDict} \cup {[k \in {COMMITER_DATE_STRICT} |-> v] : v \in DateTexts} }

\* instants the wall clock can show: the commit instant of the first commit
\* date, and moments shortly after it
Nows ==
    { [secs |-> 1705314600 + ds, sub |-> t] :
        ds \in {0, 1, 45000}, t \in {0, TicksPerSec \div 2, TicksPerSec - 1} }

GitInit ==
    /\ g_pc = "start"
    /\ output \in OutputArgs
    /\ local_off \in LocalOffsets
    /\ data = EmptyDict
    /\ show_resp = EmptyDict
    /\ merged = EmptyDict
    /\ clock = NoClock
    /\ log = <<>>
    /\ stdout_json = <<>>
    /\ file_json = <<>>
    /\ g_exit = NoReturn

GitIdle ==
    /\ g_pc = "off"
    /\ output = "-"
    /\ local_off = 0
    /\ data = EmptyDict
    /\ show_resp = EmptyDict
    /\ merged = EmptyDict
    /\ clock = NoClock
    /\ log = <<>>
    /\ stdout_json = <<>>
    /\ file_json = <<>>
    /\ g_exit = NoReturn

DenoIdle ==
    /\ argv = [mode |-> "plain", input |-> <<>>,
               filter |-> [present |-> FALSE, value |-> <<>>],
               ignore |-> <<>>, parallel |-> FALSE, watch |-> FALSE]
    /\ fs = {}
    /\ d_pc = "off"
    /\ idx = 1
    /\ input_paths = <<>>
    /\ cmd = <<>>
    /\ invocations = 0
    /\ tool = NoTool
    /\ result = NoResult
    /\ exc = <<>>
    /\ out = <<>>
    /\ err = <<>>
    /\ tty_out = <<>>
    /\ tty_err = <<>>
    /\ ret = NoReturn
    /\ exit_code = NoReturn

\* an exception nobody catches: traceback, exit status 1
Crash(step) ==
    /\ log' = Append(log, step)
    /\ g_exit' = 1
    /\ g_pc' = "done"

\* bug: the exit status of the status query is not checked
ParseGitStatus_Unchecked ==
    /\ g_pc = "start"
    /\ \E rc \in {0, 128}, so \in StatusOutputs :
          /\ data' = Update(data, [k \in {IS_DIRTY} |-> so # <<>>])
          /\ log' = Append(log, IF rc # 0 THEN "status_failed" ELSE "status_ok")
          /\ g_pc' = "status_done"
          /\ UNCHANGED g_exit
    /\ UNCHANGED <<output, local_off, show_resp, merged, clock, stdout_json, file_json>>
    /\ UNCHANGED dvars

\* main line 31: data.update(parse_git_status()), lines 66-79
ParseGitStatus ==
    /\ g_pc = "start"
    /\ \E rc \in {0, 128}, so \in StatusOutputs :
          IF rc # 0 THEN
              \* check_returncode raises CalledProcessError
              /\ Crash("status_failed")
              /\ UNCHANGED data
          ELSE
              /\ data' = Update(data, [k \in {IS_DIRTY} |-> so # <<>>])
              /\ log' = Append(log, "status_ok")
              /\ g_pc' = "status_done"
              /\ UNCHANGED g_exit
    /\ UNCHANGED <<output, local_off, show_resp, merged, clock, stdout_json, file_json>>
    /\ UNCHANGED dvars

\* main line 32: data.update(parse_git_show()), lines 44-63
ParseGitShow ==
    /\ g_pc = "status_done"
    /\ \E rc \in {0, 128}, is_json \in BOOLEAN, obj \in ShowObjects :
          IF rc # 0 THEN
              /\ Crash("show_failed")
              /\ UNCHANGED <<data, show_resp, merged>>
          ELSE IF ~is_json THEN
              \* json.loads raises JSONDecodeError
              /\ Crash("show_ok_json_error")
              /\ UNCHANGED <<data, show_resp, merged>>
          ELSE
              /\ show_resp' = obj
              /\ data' = Update(data, obj)
              /\ merged' = Update(data, obj)
              /\ log' = Append(log, "show_ok_json_ok")
              /\ g_pc' = "merged"
              /\ UNCHANGED g_exit
    /\ UNCHANGED <<output, local_off, clock, stdout_json, file_json>>
    /\ UNCHANGED dvars

\* main line 33: finalize(data), lines 82-102
Finalize ==
    /\ g_pc = "merged"
    /\ \E now \in (IF ReadsClock(data) THEN Nows ELSE {NoClock}) :
          /\ clock' = now
          /\ IF FinalizeRaises(data) THEN
                 /\ Crash("finalize_failed")
                 /\ UNCHANGED data
             ELSE
                 /\ data' = Finalized(data, now, local_off)
                 /\ log' = Append(log, "finalize_ok")
                 /\ g_pc' = "finalized"
                 /\ UNCHANGED g_exit
    /\ UNCHANGED <<output, local_off, show_resp, merged, stdout_json, file_json>>
    /\ UNCHANGED dvars

\* main lines 35-41: json.dump to stdout or to the output file, return 0
Emit ==
    /\ g_pc = "finalized"
    /\ IF output = "-" THEN
           /\ stdout_json' = Append(stdout_json, data)
           /\ UNCHANGED file_json
       ELSE
           /\ file_json' = Append(file_json, data)
           /\ UNCHANGED stdout_json
    /\ log' = Append(log, "written")
    /\ g_exit' = 0
    /\ g_pc' = "done"
    /\ UNCHANGED <<output, local_off, data, show_resp, merged, clock>>
    /\ UNCHANGED dvars

GitNext ==
    \/ ParseGitStatus
    \/ ParseGitShow
    \/ Finalize
    \/ Emit

InitGit == GitInit /\ DenoIdle

SpecGit == InitGit /\ [][GitNext]_vars
InitDeno == DenoInit /\ GitIdle

SpecDeno == InitDeno /\ [][DenoNext]_vars

\* ------------------------------------------------------------------------
\* Properties of the test runner adapter
\* ------------------------------------------------------------------------
ParsedOk == argv.mode = "plain" /\ argv.input # <<>>
ParseError == argv.mode = "unknown" \/ (argv.mode = "plain" /\ argv.input = <<>>)
AllInputsExist == \A i \in 1..Len(argv.input) : Abspath(argv.input[i]) \in fs
Lines(s) == { s[i] : i \in 1..Len(s) }
Confirmation == <<"Tests completed successfully.">>
ToolFailed == invocations = 1 /\ tool.spawned /\ tool.rc # 0

\* C1: whenever the arguments parse and at least one --input path does not
\* exist, at whatever position, the external command is never invoked and
\* main, once it ends, has returned 1.
C1_MissingInputNoInvocation ==
    (ParsedOk /\ ~AllInputsExist) =>
        /\ invocations = 0
        /\ cmd = <<>>
        /\ (d_pc = "done" => ret = 1 /\ exit_code = 1)

C1_Witness ==
    /\ d_pc = "done"
    /\ ParsedOk
    /\ Len(argv.input) = 2
    /\ Abspath(argv.input[1]) \in fs
    /\ Abspath(argv.input[2]) \notin fs
    /\ ret = 1
    /\ invocations = 0

\* The command line of section 4.1, written as a concatenation of its parts.
ExpectedCmd(with_filter) ==
    << <<"deno">>, <<"test">> >>
    \o (IF with_filter THEN << <<"--filter">>, argv.filter.value >> ELSE <<>>)
    \o [i \in 1..Len(argv.ignore) |-> <<"--ignore=">> \o argv.ignore[i]]
    \o (IF argv.parallel THEN << <<"--parallel">> >> ELSE <<>>)
    \o (IF argv.watch THEN << <<"--watch">> >> ELSE <<>>)
    \o [i \in 1..Len(argv.input) |-> Abspath(argv.input[i])]

\* C2 as stated: the command is base, then --filter and its value whenever a
\* filter was given (any string), then the ignore flags, --parallel, --watch
\* and the resolved inputs, in that order and nothing else.
C2_Original ==
    invocations = 1 => cmd = ExpectedCmd(argv.filter.present)

\* C2 amended: the same order, with --filter and its value present exactly when
\* a non-empty filter was given; an empty filter string is dropped.
C2_CommandOrder ==
    invocations = 1 =>
        cmd = ExpectedCmd(argv.filter.present /\ argv.filter.value # <<>>)

C2_Witness ==
    /\ invocations = 1
    /\ argv.filter.present /\ argv.filter.value # <<>>
    /\ Len(argv.ignore) = 2 /\ argv.ignore[1] # argv.ignore[2]
    /\ argv.parallel /\ argv.watch
    /\ Len(argv.input) = 2 /\ argv.input[1] # argv.input[2]

\* C3: main returns 0 exactly when every input path exists and the one
\* external invocation exited 0, the confirmation line being printed last; when
\* the tool exits non-zero main returns 1, prints no confirmation, and the
\* command has been invoked exactly once.
C3_ExitStatus ==
    /\ invocations <= 1
    /\ d_pc = "done" =>
        /\ ret = 0 <=> (ParsedOk /\ AllInputsExist /\ invocations = 1
                        /\ tool.spawned /\ tool.rc = 0)
        /\ ret = 0 => (exit_code = 0 /\ out # <<>> /\ out[Len(out)] = Confirmation)
        /\ ToolFailed => (ret = 1 /\ exit_code = 1 /\ Confirmation \notin Lines(out))

C3_Witness ==
    /\ d_pc = "done"
    /\ ToolFailed
    /\ ret = 1
    /\ Confirmation \notin Lines(out)

\* C4 as stated: an argument parsing error is caught by main's handler,
\* reported as "Error: <message>" and turned into exit code 1.
C4_Original ==
    (d_pc = "done" /\ ParseError) =>
        /\ exit_code = 1
        /\ \E l \in Lines(err) : Head(l) = "Error: "

\* C4 amended: an argument parsing error is not caught by main's handler:
\* argparse writes its usage message and the process exits with code 2, main
\* never returning; the failures that are caught (the external command failing
\* or not starting) are reported as "Error: <message>" and exit with code 1.
C4_UnexpectedFailure ==
    d_pc = "done" =>
        /\ ParseError =>
            (exit_code = 2 /\ ret = NoReturn /\ err = << <<"usage">> >>)
        /\ (invocations = 1 /\ (~tool.spawned \/ tool.rc # 0)) =>
            (exit_code = 1 /\ ret = 1 /\ err[Len(err)] = <<"Error: ">> \o exc)

C4_Witness ==
    /\ d_pc = "done"
    /\ argv.mode = "unknown"
    /\ exit_code = 2

\* C5: after an exit 0 with non-empty standard output the adapter has printed
\* that output itself, and after a non-zero exit the diagnostic on stderr
\* holds the label, the command line, the exit code and whatever the tool
\* wrote on stdout and stderr.
C5_EchoAndDiagnostic ==
    /\ (d_pc \in {"returned", "done"} /\ tool.spawned /\ tool.rc = 0
            /\ tool.stdout # <<>>)
        => tool.stdout \in Lines(out)
    /\ (d_pc = "done" /\ ToolFailed) =>
        /\ <<"Error running deno test:">> \in Lines(err)
        /\ (<<"Command: ">> \o JoinSpace(cmd)) \in Lines(err)
        /\ <<"Exit code: ", ToString(tool.rc)>> \in Lines(err)
        /\ tool.stdout # <<>> => (<<"stdout: ">> \o tool.stdout) \in Lines(err)
        /\ tool.stderr # <<>> => (<<"stderr: ">> \o tool.stderr) \in Lines(err)

\* ------------------------------------------------------------------------
\* Properties of the version metadata generator
\* ------------------------------------------------------------------------
Written == stdout_json # <<>> \/ file_json # <<>>
Emitted == IF output = "-" THEN stdout_json[1] ELSE file_json[1]
Derived == {CAL_VER, COMMITER_DATE_TIMESTAMP, ARTIFACT_VER}
Failures == {"status_failed", "show_failed", "show_ok_json_error", "finalize_failed"}

\* C6: a record is written only after the status query succeeded, the show
\* query succeeded and parsed as JSON, and finalize completed, in that order;
\* after a failed status query the show query is not run; and a failed query
\* or parse ends the process with a non-zero exit status and nothing written.
C6_NoOutputUnlessAllSucceeded ==
    /\ Written =>
        log = <<"status_ok", "show_ok_json_ok", "finalize_ok", "written">>
    /\ Len(stdout_json) + Len(file_json) <= 1
    /\ "status_failed" \in Lines(log) => log = <<"status_failed">>
    /\ \A i \in 1..Len(log) :
        log[i] \in Failures =>
            (i = Len(log) /\ g_pc = "done" /\ g_exit = 1 /\ ~Written)

C6_Witness ==
    /\ g_pc = "done"
    /\ log = <<"status_ok", "show_ok_json_error">>
    /\ ~Written
    /\ g_exit = 1

\* C7: in every emitted record cal_ver, committer_date_timestamp and
\* artifact_ver are all present when the show query gave a truthy committer
\* date and all absent otherwise, and artifact_ver is cal_ver, "-sha" and the
\* abbreviated commit hash of the same record.
C7_DerivedFieldsTogether ==
    Written =>
        /\ IF DateTruthy(show_resp)
           THEN Derived \subseteq DOMAIN Emitted
           ELSE Derived \cap DOMAIN Emitted = {}
        /\ ARTIFACT_VER \in DOMAIN Emitted =>
            Emitted[ARTIFACT_VER]
                = Emitted[CAL_VER] \o <<"-sha">> \o Emitted[ABBREVIATED_COMMIT_HASH]

C7_Witness ==
    /\ Written
    /\ DateTruthy(show_resp)
    /\ COMMIT_HASH \in DOMAIN Emitted
    /\ Emitted[ARTIFACT_VER]
        = Emitted[CAL_VER] \o <<"-sha">> \o Emitted[ABBREVIATED_COMMIT_HASH]

\* C8: on a dirty tree with a committer date, the normalized date and cal_ver
\* render the UTC wall clock finalize read, and committer_date_timestamp is
\* the epoch seconds of that same instant, rounded, whatever the machine's
\* local UTC offset.
C8_DirtyTreeUsesWallClock ==
    (Written /\ IsDirty(merged) /\ DateTruthy(show_resp)) =>
        LET now_utc == [secs |-> clock.secs, sub |-> clock.sub]
        IN  /\ Emitted[CAL_VER] = FormatCalVer(Fields(now_utc))
            /\ Emitted[COMMITER_DATE_STRICT] = FormatStrict(Fields(now_utc))
            /\ Emitted[COMMITER_DATE_TIMESTAMP] = RoundHalfEven(clock.secs, clock.sub)

\* The commit dates of the model with the UTC rendering and the epoch seconds
\* of the instant each denotes.
ExpectedUtc ==
    { [commit |-> [year |-> 2024, month |-> 1, day |-> 15, hour |-> 10, minute |-> 30,
       second |-> 0, off |-> 0],
       text |-> <<"2", "0", "2", "4", "-", "0", "1", "-", "1", "5", "T", "1", "0", ":", "3", "0", ":", "0", "0", "+", "0", "0", ":", "0", "0">>,
       strict |-> <<"2", "0", "2", "4", "0", "1", "1", "5", "T", "1", "0", ":", "3", "0", ":", "0", "0", "Z">>,
       cal_ver |-> <<"2", "0", "2", "4", "0", "1", "1", "5", ".", "1", "0", "3", "0", "0", "0", ".", "0">>,
       epoch |-> 1705314600],
      [commit |-> [year |-> 2024, month |-> 1, day |-> 15, hour |-> 11, minute |-> 30,
       second |-> 0, off |-> 60],
       text |-> <<"2", "0", "2", "4", "-", "0", "1", "-", "1", "5", "T", "1", "1", ":", "3", "0", ":", "0", "0", "+", "0", "1", ":", "0", "0">>,
       strict |-> <<"2", "0", "2", "4", "0", "1", "1", "5", "T", "1", "0", ":", "3", "0", ":", "0", "0", "Z">>,
       cal_ver |-> <<"2", "0", "2", "4", "0", "1", "1", "5", ".", "1", "0", "3", "0", "0", "0", ".", "0">>,
       epoch |-> 1705314600],
      [commit |-> [year |-> 2024, month |-> 1, day |-> 15, hour |-> 5, minute |-> 30,
       second |-> 0, off |-> -300],
       text |-> <<"2", "0", "2", "4", "-", "0", "1", "-", "1", "5", "T", "0", "5", ":", "3", "0", ":", "0", "0", "-", "0", "5", ":", "0", "0">>,
       strict |-> <<"2", "0", "2", "4", "0", "1", "1", "5", "T", "1", "0", ":", "3", "0", ":", "0", "0", "Z">>,
       cal_ver |-> <<"2", "0", "2", "4", "0", "1", "1", "5", ".", "1", "0", "3", "0", "0", "0", ".", "0">>,
       epoch |-> 1705314600],
      [commit |-> [year |-> 2024, month |-> 3, day |-> 1, hour |-> 0, minute |-> 30,
       second |-> 59, off |-> 60],
       text |-> <<"2", "0", "2", "4", "-", "0", "3", "-", "0", "1", "T", "0", "0", ":", "3", "0", ":", "5", "9", "+", "0", "1", ":", "0", "0">>,
       strict |-> <<"2", "0", "2", "4", "0", "2", "2", "9", "T", "2", "3", ":", "3", "0", ":", "5", "9", "Z">>,
       cal_ver |-> <<"2", "0", "2", "4", "0", "2", "2", "9", ".", "2", "3", "3", "0", "5", "9", ".", "0">>,
       epoch |-> 1709249459],
      [commit |-> [year |-> 2023, month |-> 12, day |-> 31, hour |-> 20, minute |-> 0,
       second |-> 1, off |-> -330],
       text |-> <<"2", "0", "2", "3", "-", "1", "2", "-", "3", "1", "T", "2", "0", ":", "0", "0", ":", "0", "1", "-", "0", "5", ":", "3", "0">>,
       strict |-> <<"2", "0", "2", "4", "0", "1", "0", "1", "T", "0", "1", ":", "3", "0", ":", "0", "1", "Z">>,
       cal_ver |-> <<"2", "0", "2", "4", "0", "1", "0", "1", ".", "0", "1", "3", "0", "0", "1", ".", "0">>,
       epoch |-> 1704072601] }
HasOffset(d) ==
    Has(d, COMMITER_DATE_STRICT) /\ HasOffsetShape(d[COMMITER_DATE_STRICT])

\* C9: on a clean tree, for a commit date in strict ISO-8601 with a UTC offset,
\* the emitted committer_date_strict_iso8601 and cal_ver are the UTC rendering
\* of the commit instant and committer_date_timestamp its epoch seconds (so
\* dates denoting one instant with different offsets give the same fields), and
\* is_dirty, commit_hash and abbreviated_commit_hash are as before finalize.
C9_CleanTreeUtcRendering ==
    (Written /\ ~IsDirty(merged) /\ HasOffset(show_resp)) =>
        /\ \E e \in ExpectedUtc : show_resp[COMMITER_DATE_STRICT] = e.text
        /\ \A e \in ExpectedUtc :
            (show_resp[COMMITER_DATE_STRICT] = e.text
                /\ e.text = GitStrictIso(e.commit)) =>
                /\ Emitted[COMMITER_DATE_STRICT] = e.strict
                /\ Emitted[CAL_VER] = e.cal_ver
                /\ Emitted[COMMITER_DATE_TIMESTAMP] = e.epoch
        /\ \A k \in {IS_DIRTY, COMMIT_HASH, ABBREVIATED_COMMIT_HASH} :
            /\ k \in DOMAIN Emitted <=> k \in DOMAIN merged
            /\ k \in DOMAIN merged => Emitted[k] = merged[k]

C9_Witness ==
    /\ Written
    /\ ~IsDirty(merged)
    /\ HasOffset(show_resp)
    /\ local_off # 0
    /\ \E e \in ExpectedUtc :
        /\ e.commit.off # 0
        /\ e.commit.day # 15
        /\ show_resp[COMMITER_DATE_STRICT] = e.text
        /\ Emitted[CAL_VER] = e.cal_ver

\* C10 as stated: with no or a falsy committer date finalize leaves the merged
\* mapping unchanged and the emitted record holds is_dirty and nothing else.
C10_Original ==
    (Written /\ ~DateTruthy(show_resp)) =>
        /\ Emitted = merged
        /\ DOMAIN Emitted = {IS_DIRTY}

\* C10 amended: with no or a falsy committer date finalize leaves the merged
\* mapping unchanged, and the emitted record is that mapping: is_dirty from the
\* status query together with every field the show response carried.
C10_NoDateFinalizeNoOp ==
    (g_pc \in {"finalized", "done"} /\ "finalize_ok" \in Lines(log)
            /\ ~DateTruthy(show_resp)) =>
        /\ data = merged
        /\ clock = NoClock
        /\ Written => Emitted = merged
        /\ DOMAIN data = {IS_DIRTY} \cup DOMAIN show_resp
        /\ \A k \in DOMAIN show_resp : data[k] = show_resp[k]

C10_Witness ==
    /\ Written
    /\ ~DateTruthy(show_resp)
    /\ COMMITER_DATE_STRICT \in DOMAIN show_resp
    /\ ABBREVIATED_COMMIT_HASH \in DOMAIN Emitted
    /\ IsDirty(Emitted)

====
